---- MODULE Spec2Model ----
(***************************************************************************)
(* Verification model of the executive dashboard's natural-language query  *)
(* pipeline: the conversation memory of LlamaStackLLM                      *)
(* (llamastack_handler.py) and the QueryAgent orchestrator                 *)
(* (query_agent.py) with the code-generation pipeline it drives            *)
(* (pandas_query_generator.py).                                            *)
(*                                                                         *)
(* Python values are modelled by TLA+ values of the same shape: str by     *)
(* strings, list by sequences, dict by records, None by the value None.    *)
(***************************************************************************)
EXTENDS Integers, Sequences, FiniteSets, TLC

VARIABLES
    max_history,           \* LlamaStackLLM.max_history
    conversation_history,  \* LlamaStackLLM.conversation_history
    op,                    \* name of the call that returned last
    ret,                   \* what that call returned
    before,                \* conversation_history when that call started
    request,               \* messages the last send_message passed to chat_completion
    sends,                 \* number of send_message calls so far
    sysInserts,            \* requests of the current session that carried a system entry
    prev_op,               \* name of the call that returned before op
    args,                  \* arguments of the call that returned last
    llm,                   \* what ChatLlamaStack.invoke did in the last send_message
    llm_backend,           \* QueryAgent.llm_backend
    code_generator,        \* QueryAgent.code_generator
    llm_available,         \* QueryAgent.llm_available
    use_code_generation,   \* QueryAgent.use_code_generation
    data_loader,           \* the RetailDataLoader the agent was built on
    steps,                 \* pipeline steps the last call went through, in order
    llm_calls,             \* LLM invocations the last call made
    trace,                 \* the agent's most recent calls, oldest first
    cached,                \* st.cache_resource entry of initialize_components:
                           \* the number of the QueryAgent it holds, 0 when empty
    session_agent          \* per browser session, the QueryAgent its script run
                           \* got from initialize_components (0: not started)

memVars == <<max_history, conversation_history, op, ret, before, request, sends,
             sysInserts, prev_op, args, llm>>
agentVars == <<llm_backend, code_generator, llm_available, use_code_generation,
               data_loader, steps, llm_calls, trace>>
sessionVars == <<cached, session_agent>>
vars == <<memVars, agentVars, sessionVars>>

\* ---------------------------------------------------------------- bounds
\* max_history is configured from 0..MaxHistoryCfg
MaxHistoryCfg == 2
\* at most MaxSends send_message calls are explored
MaxSends == 4
\* browser sessions served by the one Streamlit process
MaxSessions == 2
\* questions put to classify_query hold at most MaxWords words
MaxWords == 3
\* the results formatted and charted have up to this many rows
MaxRows == 22
Sessions == 1..MaxSessions
\* no session has run the script yet
NoSessions == [s \in Sessions |-> 0]

\* ---------------------------------------------------------------- values
None == "None"

Max(a, b) == IF a >= b THEN a ELSE b
Min(a, b) == IF a <= b THEN a ELSE b

\* str.startswith
StartsWith(s, p) == Len(s) >= Len(p) /\ SubSeq(s, 1, Len(p)) = p

\* Python truthiness of an Optional[str]: None and "" are falsy
Truthy(s) == s # None /\ s # ""

\* Python list slice s[i:] (negative i counts from the end, 0 is the start)
SliceFrom(s, i) ==
    LET start == IF i < 0 THEN Max(0, Len(s) + i) ELSE Min(i, Len(s))
    IN  SubSeq(s, start + 1, Len(s))

\* Python list slice s[:i]
SliceTo(s, i) ==
    LET stop == IF i < 0 THEN Max(0, Len(s) + i) ELSE Min(i, Len(s))
    IN  SubSeq(s, 1, stop)

Entry(role, content) == [role |-> role, content |-> content]

\* ---------------------------------------------------------------- inputs
UserMessages == {"Why did revenue drop?", "Tell me more"}
SystemMessages == {None, "", "You are a retail analyst."}
\* what ChatLlamaStack.invoke can do: return a reply or raise
LLMReplies == {"Revenue fell 4% in Q3.", "Error rates rose in store 12."}
LLMOutcomes ==
    [ok : {TRUE}, text : LLMReplies] \cup [ok : {FALSE}, text : {"connection refused"}]

\* the agent's last RecentCalls calls are remembered
RecentCalls == 3
Questions == {"Why did revenue drop?", "Hello there"}
\* what the analysis (or narrative) LLM call can do
AnalysisOutcomes ==
    {[ok |-> TRUE, text |-> "Revenue fell 4% in Q3."],
     [ok |-> FALSE, text |-> "connection refused"]}
\* what the availability probe's LLM call can do
ProbeOutcomes == LLMOutcomes \cup {[ok |-> TRUE, text |-> ""]}

\* ---------------------------------------------------------------- LlamaStackLLM
\* chat_completion: the reply's content, or the exception turned into text
chat_completion(messages, out) ==
    IF out.ok THEN out.text ELSE "Error calling LlamaStack API: " \o out.text

\* variant: the system entry is added whenever one is supplied
BuildMessagesAlwaysSystem(history, mh, user_message, system_message) ==
    LET sys == IF Truthy(system_message)
               THEN <<Entry("system", system_message)>>
               ELSE <<>>
        start_idx == Max(0, Len(history) - mh * 2)
    IN  sys \o SliceFrom(history, start_idx) \o <<Entry("user", user_message)>>

\* the messages list send_message builds
BuildMessages(history, mh, user_message, system_message) ==
    LET sys == IF Truthy(system_message) /\ Len(history) = 0
               THEN <<Entry("system", system_message)>>
               ELSE <<>>
        start_idx == Max(0, Len(history) - mh * 2)
    IN  sys \o SliceFrom(history, start_idx) \o <<Entry("user", user_message)>>

\* whether send_message stores the exchange
IsStored(response) == ~StartsWith(response, "Error")

\* variant: the trim keeps one entry more than the cap
TrimHistoryOneMore(history, mh) ==
    IF Len(history) > mh * 2 THEN SliceFrom(history, -(mh * 2 + 1)) ELSE history

\* the trim at the end of send_message
TrimHistory(history, mh) ==
    IF Len(history) > mh * 2 THEN SliceFrom(history, -(mh * 2)) ELSE history

\* conversation_history after send_message
HistoryAfterSend(history, mh, user_message, response) ==
    IF IsStored(response)
    THEN TrimHistory(
             history \o <<Entry("user", user_message), Entry("assistant", response)>>,
             mh)
    ELSE history

\* variant: undo drops the assistant entry only
UndoLastEntry(history) ==
    IF Len(history) >= 2
    THEN [history |-> SliceTo(history, -1), ret |-> TRUE]
    ELSE [history |-> history, ret |-> FALSE]

\* undo_last_exchange: the new history and the return value
UndoLastExchange(history) ==
    IF Len(history) >= 2
    THEN [history |-> SliceTo(history, -2), ret |-> TRUE]
    ELSE [history |-> history, ret |-> FALSE]

\* variant: clear restarts the session clock but keeps the entries
ClearSessionStartOnly(history) == history

\* clear_history: the new history
ClearHistory(history) == <<>>

\* ---------------------------------------------------------------- classes
\* the methods each class defines; calling any other name raises AttributeError
LlamaStackLLMMethods ==
    {"__init__", "chat_completion", "is_available", "send_message", "clear_history",
     "get_history", "get_history_summary", "undo_last_exchange"}
QueryAgentMethods ==
    {"__init__", "setup_agent", "query", "_query_with_llm", "clear_conversation",
     "get_conversation_summary", "undo_last_query"}

\* the outcome of a call: a returned value, or the class name of what it raised
Returned(v) == [raised |-> FALSE, value |-> v]
Raised(e) == [raised |-> TRUE, value |-> e]
\* what `except Exception` catches: everything but the BaseException-only classes
IsException(e) == e \notin {"SystemExit", "KeyboardInterrupt"}

\* LlamaStackLLM.__init__'s default max_history
DefaultMaxHistory == 10
\* LlamaStackLLM.__init__'s default model
DefaultModel == "ollama/llama3.3:70b"

\* is_available: bool(response.content), False when invoke raises
is_available(probe) == IF probe.ok THEN probe.text # "" ELSE FALSE

\* get_history_summary (the clock readings are left out)
get_history_summary(history) ==
    [message_count |-> Len(history), model |-> DefaultModel,
     provider |-> "LlamaStack (ChatLlamaStack)"]

\* ---------------------------------------------------------------- str helpers
\* the `in` operator on str
Contains(s, sub) ==
    \E i \in 1..(Len(s) - Len(sub) + 1) : SubSeq(s, i, i + Len(sub) - 1) = sub

\* str.find from position `from` (1-based; 0 when absent)
Find(s, sub, from) ==
    LET hits == {i \in from..(Len(s) - Len(sub) + 1) : SubSeq(s, i, i + Len(sub) - 1) = sub}
    IN  IF hits = {} THEN 0 ELSE CHOOSE i \in hits : \A j \in hits : i <= j

UpperLetters == "ABCDEFGHIJKLMNOPQRSTUVWXYZ"
LowerLetters == "abcdefghijklmnopqrstuvwxyz"
LowerChar(c) ==
    LET i == Find(UpperLetters, c, 1)
    IN  IF i = 0 THEN c ELSE SubSeq(LowerLetters, i, i)

\* str.lower
RECURSIVE Lower(_)
Lower(s) ==
    IF Len(s) = 0 THEN "" ELSE LowerChar(SubSeq(s, 1, 1)) \o Lower(SubSeq(s, 2, Len(s)))

IsSpace(c) == c \in {" ", "\n", "\t"}
\* str.strip
Strip(s) ==
    LET keep == {i \in 1..Len(s) : ~IsSpace(SubSeq(s, i, i))}
    IN  IF keep = {} THEN ""
        ELSE SubSeq(s, CHOOSE i \in keep : \A j \in keep : i <= j,
                       CHOOSE i \in keep : \A j \in keep : i >= j)

\* ---------------------------------------------------------------- QueryPromptBuilder
performance_keywords ==
    <<"sales", "revenue", "performance", "trend", "growth", "volume", "q1", "q2",
      "q3", "q4", "quarter", "month", "year">>
comparison_keywords ==
    <<"compare", "versus", "vs", "difference", "better", "worse", "than",
      "last year", "this year">>
anomaly_keywords ==
    <<"underperforming", "overperforming", "outlier", "unusual", "anomaly", "spike",
      "drop", "concern", "problem">>
drilldown_keywords ==
    <<"why", "what's driving", "cause", "reason", "breakdown", "detail", "explain",
      "factors">>

\* sum(1 for kw in keywords if kw in question_lower)
Score(keywords, question_lower) ==
    Cardinality({i \in 1..Len(keywords) : Contains(question_lower, keywords[i])})

\* the keys of the scores dict, in insertion order
Intents == <<"performance", "comparison", "anomaly", "drilldown">>

\* variant: the scores taken on the question as typed
scoresAsTyped(question) ==
    LET q == question
    IN  [performance |-> Score(performance_keywords, q),
         comparison  |-> Score(comparison_keywords, q),
         anomaly     |-> Score(anomaly_keywords, q),
         drilldown   |-> Score(drilldown_keywords, q)]

scores(question) ==
    LET q == Lower(question)
    IN  [performance |-> Score(performance_keywords, q),
         comparison  |-> Score(comparison_keywords, q),
         anomaly     |-> Score(anomaly_keywords, q),
         drilldown   |-> Score(drilldown_keywords, q)]

\* variant: among tied intents the last in insertion order
classify_queryLastTie(question) ==
    LET sc == scores(question)
        best == CHOOSE m \in {sc[Intents[i]] : i \in 1..4} :
                    \A i \in 1..4 : sc[Intents[i]] <= m
    IN  IF best = 0 THEN "general"
        ELSE Intents[CHOOSE i \in 1..4 :
                        /\ sc[Intents[i]] = best
                        /\ \A j \in (i + 1)..4 : sc[Intents[j]] # best]

\* classify_query: "general" when every score is 0, else max(scores, key=scores.get),
\* which is the first key in insertion order holding the largest score
classify_query(question) ==
    LET sc == scores(question)
        best == CHOOSE m \in {sc[Intents[i]] : i \in 1..4} :
                    \A i \in 1..4 : sc[Intents[i]] <= m
    IN  IF best = 0 THEN "general"
        ELSE Intents[CHOOSE i \in 1..4 :
                        /\ sc[Intents[i]] = best
                        /\ \A j \in 1..(i - 1) : sc[Intents[j]] # best]

\* classify_query on each question, worked out once
QueryTypePairs == {<<question, classify_query(question)>> : question \in Questions}
QueryType ==
    [question \in Questions |-> (CHOOSE p \in QueryTypePairs : p[1] = question)[2]]

\* str.title of an intent label
Title(query_type) ==
    CASE query_type = "performance" -> "Performance"
      [] query_type = "comparison"  -> "Comparison"
      [] query_type = "anomaly"     -> "Anomaly"
      [] query_type = "drilldown"   -> "Drilldown"
      [] OTHER                      -> "General"

\* ---------------------------------------------------------------- RetailDataLoader
\* a dataset attribute: None, or a DataFrame with its column names (of the columns
\* the code reads)
NoData == [present |-> FALSE, columns |-> {}]
DataFrame(columns) == [present |-> TRUE, columns |-> columns]
StoreTransactionsColumns == {"Date", "StoreID", "TotalPrice"}
ProductSalesColumns == {"Region", "Product", "TotalPrice", "Quantity"}
InventoryColumns == {"QuantityInStock", "ReorderPoint"}
CustomerColumns == {"ReviewRating", "CustomerID"}

Loader(st, ps, inv, cu) ==
    [store_transactions |-> st, product_sales |-> ps, inventory_data |-> inv,
     customer_data |-> cu]
\* after load_all_data
LoadedData ==
    Loader(DataFrame(StoreTransactionsColumns), DataFrame(ProductSalesColumns),
           DataFrame(InventoryColumns), DataFrame(CustomerColumns))
\* a RetailDataLoader on which load_all_data was not called
UnloadedData == Loader(NoData, NoData, NoData, NoData)
\* the loaders the agent is built on: loaded, not loaded, or loaded from workbooks
\* in which a column is missing
DataLoaders ==
    {LoadedData, UnloadedData,
     [LoadedData EXCEPT !.store_transactions =
          DataFrame(StoreTransactionsColumns \ {"Date"})],
     [LoadedData EXCEPT !.product_sales =
          DataFrame(ProductSalesColumns \ {"Region"})],
     [LoadedData EXCEPT !.store_transactions =
          DataFrame(StoreTransactionsColumns \ {"StoreID"})]}

\* df[col] for every col of `needed` raises KeyError when one is missing
Missing(df, needed) == df.present /\ ~(needed \subseteq df.columns)
Present(dl) ==
    SelectSeq(<<"store_transactions", "product_sales", "inventory_data", "customer_data">>,
              LAMBDA n : dl[n].present)

\* ---------------------------------------------------------------- DataContextBuilder
\* build_context: the keys of the context dict, or KeyError
build_context(dl) ==
    IF \/ Missing(dl.store_transactions, {"StoreID"})
       \/ Missing(dl.product_sales, {"Region", "Product"})
    THEN Raised("KeyError")
    ELSE Returned(
             (IF dl.store_transactions.present
              THEN {"total_stores"} \cup
                   (IF "Date" \in dl.store_transactions.columns
                    THEN {"date_range"} ELSE {})
              ELSE {})
             \cup (IF dl.product_sales.present
                   THEN {"regions", "total_products"} ELSE {})
             \cup (IF dl.inventory_data.present THEN {"inventory_items"} ELSE {}))

\* build_data_summary: the sections of the summary, or KeyError
build_data_summary(dl) ==
    IF \/ Missing(dl.store_transactions, {"TotalPrice", "StoreID"})
       \/ Missing(dl.product_sales, {"Region", "TotalPrice", "Quantity"})
       \/ Missing(dl.inventory_data, {"QuantityInStock", "ReorderPoint"})
       \/ /\ dl.customer_data.present
          /\ "ReviewRating" \in dl.customer_data.columns
          /\ "CustomerID" \notin dl.customer_data.columns
    THEN Raised("KeyError")
    ELSE Returned(
             SelectSeq(Present(dl),
                       LAMBDA n : n # "customer_data" \/ "ReviewRating" \in dl[n].columns))

\* ---------------------------------------------------------------- PandasCodeGenerator
\* A TLA+ string cannot hold a backquote: the Markdown fence of three backquotes
\* is written as three apostrophes throughout.
Fence == "'''"

\* _extract_code: the body of the first python-tagged fenced block, else of the
\* first untagged one, else the whole reply; stripped
BlockAfter(response, opening) ==
    LET start == Find(response, opening, 1)
        body == IF start = 0 THEN 0 ELSE start + Len(opening)
        close == IF start = 0 THEN 0 ELSE Find(response, Fence, body)
    IN  [found |-> close # 0,
         body |-> IF close = 0 THEN "" ELSE SubSeq(response, body, close - 1)]

_extract_code(response) ==
    LET tagged == BlockAfter(response, Fence \o "python\n")
        plain == BlockAfter(response, Fence \o "\n")
    IN  IF tagged.found THEN Strip(tagged.body)
        ELSE IF plain.found THEN Strip(plain.body)
        ELSE Strip(response)

\* generate_code: one LLM call, then _extract_code
generate_code(question, data_context, gen) ==
    _extract_code(chat_completion(<<>>, gen))

\* _build_data_context: one line per dataset that is present, or KeyError
_build_data_context(dl) ==
    IF \/ Missing(dl.store_transactions, {"Date"})
       \/ Missing(dl.product_sales, {"Region"})
    THEN Raised("KeyError")
    ELSE Returned(Present(dl))

\* programs the LLM is seen to generate
SeriesProgram == "result = store_transactions.groupby('StoreID')['TotalPrice'].sum()"
CountProgram == "result = len(product_sales)"
NoResultProgram == "total = store_transactions['TotalPrice'].sum()"
ExitProgram == "import sys\nsys.exit(1)"
MonthProgram ==
    "store_transactions['Month'] = store_transactions['Date'].astype(str).str[:7]\nresult = store_transactions.groupby('Month')['TotalPrice'].sum()"
RaiseProgram == "raise ValueError()"
NoneProgram == "result = None"
GroupedProgram ==
    "result = store_transactions.groupby(['StoreID', 'Date'])['TotalPrice'].sum()"

\* replies to the code-generation prompt
GenReplies ==
    {"Here is the code:\n" \o Fence \o "python\n" \o SeriesProgram \o "\n" \o Fence,
     Fence \o "\n" \o CountProgram \o "\n" \o Fence \o "\n",
     NoResultProgram,
     ExitProgram,
     MonthProgram,
     GroupedProgram,
     "I cannot answer that from the data."}
GenOutcomes ==
    [ok : {TRUE}, text : GenReplies] \cup [ok : {FALSE}, text : {"connection refused"}]
\* generate_code on each reply, worked out once
GeneratedPairs == {<<gen, generate_code("", <<>>, gen)>> : gen \in GenOutcomes}
GeneratedCode ==
    [gen \in GenOutcomes |-> (CHOOSE p \in GeneratedPairs : p[1] = gen)[2]]

Column(name, numeric) == [name |-> name, numeric |-> numeric]
\* a pandas value: its type name, its columns (for a Series the index, then the
\* values), the number each row holds in the numeric columns, and whether the try
\* block of create_visualization runs through on it (plots) or raises
Table(type, values, columns, plots) ==
    [type |-> type, nrows |-> Len(values), values |-> values, columns |-> columns,
     plots |-> plots]
\* a pandas value of nrows rows that plotly draws
Pandas(type, nrows, columns) == Table(type, [i \in 1..nrows |-> i], columns, TRUE)
\* a result that is no table: an int, a str, a dict of entries, anything else
Scalar(type, value) == [type |-> type, value |-> value]
\* a dict result and its entries
Mapping(entries) == [type |-> "dict", entries |-> entries]

\* what exec(code) does: binds result, binds nothing, or raises
Assigns(v) == [kind |-> "assigns", value |-> v]
Raises(e, msg) == [kind |-> "raises", exc |-> e, msg |-> msg]
NotSubscriptable == "'NoneType' object is not subscriptable"
RunProgram(code, dl) ==
    CASE code = SeriesProgram ->
            IF ~dl.store_transactions.present
            THEN Raises("AttributeError", "'NoneType' object has no attribute 'groupby'")
            ELSE IF "StoreID" \notin dl.store_transactions.columns
            THEN Raises("KeyError", "'StoreID'")
            ELSE Assigns(Pandas("Series", 3, <<Column("StoreID", FALSE),
                                               Column("TotalPrice", TRUE)>>))
      [] code = CountProgram ->
            IF ~dl.product_sales.present
            THEN Raises("TypeError", "object of type 'NoneType' has no len()")
            ELSE Assigns(Scalar("int", "3"))
      [] code = NoResultProgram ->
            IF ~dl.store_transactions.present
            THEN Raises("TypeError", NotSubscriptable)
            ELSE [kind |-> "none"]
      [] code = ExitProgram -> Raises("SystemExit", "1")
      [] code = MonthProgram ->
            IF ~dl.store_transactions.present
            THEN Raises("TypeError", NotSubscriptable)
            ELSE IF "Date" \notin dl.store_transactions.columns
            THEN Raises("KeyError", "'Date'")
            ELSE Assigns(Pandas("Series", 3, <<Column("Month", FALSE),
                                               Column("TotalPrice", TRUE)>>))
      [] code = RaiseProgram -> Raises("ValueError", "")
      [] code = GroupedProgram ->
            IF ~dl.store_transactions.present
            THEN Raises("AttributeError", "'NoneType' object has no attribute 'groupby'")
            ELSE IF ~({"StoreID", "Date"} \subseteq dl.store_transactions.columns)
            THEN Raises("KeyError", "'StoreID'")
            ELSE \* a Series with a two-level index: reset_index() makes three
                 \* columns of it, and naming them (Category, Value) raises
                 \* ValueError inside the try block of create_visualization
                 Assigns(Table("Series", <<1, 2, 3>>,
                               <<Column("StoreID", FALSE), Column("TotalPrice", TRUE)>>,
                               FALSE))
      [] code = NoneProgram -> [kind |-> "none"]
      [] OTHER -> Raises("SyntaxError", "invalid syntax (<string>, line 1)")

\* the loader's datasets after exec(code): exec_globals holds the DataFrames
\* themselves, so an assignment into one of them stays
DataAfter(code, dl) ==
    IF /\ code = MonthProgram
       /\ dl.store_transactions.present
       /\ "Date" \in dl.store_transactions.columns
    THEN [dl EXCEPT !.store_transactions.columns = @ \cup {"Month"}]
    ELSE dl

\* the programs execute_code is given
Programs ==
    {SeriesProgram, CountProgram, NoResultProgram, ExitProgram, MonthProgram,
     RaiseProgram, NoneProgram, GroupedProgram,
     "I cannot answer that from the data."}

\* variant: execute_code without the test for a missing result
ExecutionResultUnchecked(code, run) ==
    IF run.kind = "raises"
    THEN IF IsException(run.exc)
         THEN Returned([success |-> FALSE, error |-> run.msg,
                        traceback |-> run.exc \o ": " \o run.msg, code |-> code])
         ELSE Raised(run.exc)
    ELSE IF run.kind = "none"
    THEN Returned([success |-> TRUE, result |-> None, code |-> code,
                   result_type |-> "NoneType"])
    ELSE Returned([success |-> TRUE, result |-> run.value, code |-> code,
                   result_type |-> run.value.type])

\* execute_code after exec: the result dict, or what escapes `except Exception`
ExecutionResult(code, run) ==
    IF run.kind = "raises"
    THEN IF IsException(run.exc)
         THEN Returned([success |-> FALSE, error |-> run.msg,
                        traceback |-> run.exc \o ": " \o run.msg, code |-> code])
         ELSE Raised(run.exc)
    ELSE IF run.kind = "none"
    THEN Returned([success |-> FALSE,
                   error |-> "Code did not produce a 'result' variable",
                   code |-> code])
    ELSE Returned([success |-> TRUE, result |-> run.value, code |-> code,
                   result_type |-> run.value.type])

\* execute_code: exec(code) on the loader's datasets, then the result dict
execute_code(code, dl) == ExecutionResult(code, RunProgram(code, dl))

\* analyze_results: one LLM call
analyze_results(question, execution_result, ana) == chat_completion(<<>>, ana)

\* the row numbers of a table, in order
AllRows(values) == [i \in 1..Len(values) |-> i]
\* head(n): the first n rows
head(values, n) == [i \in 1..Min(n, Len(values)) |-> i]

\* the formatted text: what stands before the rows, the rows printed, what follows
Formatted(before_rows, rows, after_rows) ==
    [before_rows |-> before_rows, rows |-> rows, after_rows |-> after_rows]

\* variant: format_result that shortens a table of 20 rows already
format_resultFromLimit(execution_result) ==
    IF ~execution_result.success
    THEN Formatted("Error executing code:\n" \o execution_result.error, <<>>, "")
    ELSE LET result == execution_result.result IN
    IF result.type = "DataFrame"
    THEN IF result.nrows >= 20
         THEN Formatted("DataFrame with " \o ToString(result.nrows) \o " rows and "
                            \o ToString(Len(result.columns)) \o " columns\n\n"
                            \o "First 10 rows:\n",
                        head(result.values, 10),
                        "\n\n... (showing 10 of " \o ToString(result.nrows) \o " rows)")
         ELSE Formatted("", AllRows(result.values), "")
    ELSE IF result.type = "Series"
    THEN IF result.nrows >= 20
         THEN Formatted("Series with " \o ToString(result.nrows) \o " values\n\n"
                            \o "First 10 values:\n",
                        head(result.values, 10),
                        "\n\n... (showing 10 of " \o ToString(result.nrows) \o " values)")
         ELSE Formatted("", AllRows(result.values), "")
    ELSE IF result.type \in {"int", "float", "str"}
    THEN Formatted("Result: " \o result.value, <<>>, "")
    ELSE IF result.type = "dict"
    THEN Formatted("Result (dictionary):\n", result.entries, "")
    ELSE Formatted(result.value, <<>>, "")

\* format_result: the error, the table (its first 10 rows when it has more than
\* 20), the scalar, the dictionary's entries, or str(result)
format_result(execution_result) ==
    IF ~execution_result.success
    THEN Formatted("Error executing code:\n" \o execution_result.error, <<>>, "")
    ELSE LET result == execution_result.result IN
    IF result.type = "DataFrame"
    THEN IF result.nrows > 20
         THEN Formatted("DataFrame with " \o ToString(result.nrows) \o " rows and "
                            \o ToString(Len(result.columns)) \o " columns\n\n"
                            \o "First 10 rows:\n",
                        head(result.values, 10),
                        "\n\n... (showing 10 of " \o ToString(result.nrows) \o " rows)")
         ELSE Formatted("", AllRows(result.values), "")
    ELSE IF result.type = "Series"
    THEN IF result.nrows > 20
         THEN Formatted("Series with " \o ToString(result.nrows) \o " values\n\n"
                            \o "First 10 values:\n",
                        head(result.values, 10),
                        "\n\n... (showing 10 of " \o ToString(result.nrows) \o " values)")
         ELSE Formatted("", AllRows(result.values), "")
    ELSE IF result.type \in {"int", "float", "str"}
    THEN Formatted("Result: " \o result.value, <<>>, "")
    ELSE IF result.type = "dict"
    THEN Formatted("Result (dictionary):\n", result.entries, "")
    ELSE Formatted(result.value, <<>>, "")

Names(columns, numeric) ==
    LET sel == SelectSeq(columns, LAMBDA c : c.numeric = numeric)
    IN  [i \in 1..Len(sel) |-> sel[i].name]

\* a figure: its kind, its axes and the rows of the table it draws
Chart(kind, x, y, rows) == [kind |-> kind, x |-> x, y |-> y, rows |-> rows]
\* the None that stands for "no figure"
NoChart == [kind |-> None]

\* the n largest of the rows in left, largest first, the earlier row on a tie
RECURSIVE NLargestFrom(_, _, _)
NLargestFrom(values, left, n) ==
    IF n = 0 \/ left = {} THEN <<>>
    ELSE LET top == CHOOSE i \in left :
                        \A j \in left : \/ values[i] > values[j]
                                        \/ values[i] = values[j] /\ i <= j
         IN  <<top>> \o NLargestFrom(values, left \ {top}, n - 1)

\* variant: the first n rows instead of the n largest
nlargestFirstRows(values, n) == head(values, n)

\* df.nlargest(n, column): the rows of the n largest values
nlargest(values, n) == NLargestFrom(values, DOMAIN values, n)

\* df_plot: the whole table, or its 15 largest rows
PlotRows(values) ==
    IF Len(values) > 15 THEN nlargest(values, 15) ELSE AllRows(values)

\* variant: a scatter plot for any two or more numeric columns
NoCategoryChartAnyPair(values, numeric_cols) ==
    IF Len(numeric_cols) >= 2
    THEN Chart("scatter", numeric_cols[1], <<numeric_cols[2]>>, AllRows(values))
    ELSE NoChart

\* the figure for a table without a categorical column: a scatter plot of exactly
\* two numeric columns
NoCategoryChart(values, numeric_cols) ==
    IF Len(numeric_cols) = 2
    THEN Chart("scatter", numeric_cols[1], <<numeric_cols[2]>>, AllRows(values))
    ELSE NoChart

\* variant: the figure chosen without the test for an empty table
ChartForNoEmptyCheck(values, numeric_cols, cat_cols) ==
    IF Len(numeric_cols) = 0 THEN NoChart
    ELSE IF Len(numeric_cols) = 1
    THEN IF Len(cat_cols) > 0
         THEN Chart("bar", cat_cols[1], <<numeric_cols[1]>>, PlotRows(values))
         ELSE NoChart
    ELSE IF Len(cat_cols) > 0
    THEN IF \/ Contains(Lower(cat_cols[1]), "date")
            \/ Contains(Lower(cat_cols[1]), "time")
         THEN Chart("line", cat_cols[1], numeric_cols, PlotRows(values))
         ELSE Chart("grouped_bar", cat_cols[1], numeric_cols, PlotRows(values))
    ELSE NoCategoryChart(values, numeric_cols)

\* the figure create_visualization chooses for the table df, or None (NoChart)
ChartFor(values, numeric_cols, cat_cols) ==
    IF Len(values) = 0 THEN NoChart
    ELSE IF Len(numeric_cols) = 0 THEN NoChart
    ELSE IF Len(numeric_cols) = 1
    THEN IF Len(cat_cols) > 0
         THEN Chart("bar", cat_cols[1], <<numeric_cols[1]>>, PlotRows(values))
         ELSE NoChart
    ELSE IF Len(cat_cols) > 0
    THEN IF \/ Contains(Lower(cat_cols[1]), "date")
            \/ Contains(Lower(cat_cols[1]), "time")
         THEN Chart("line", cat_cols[1], numeric_cols, PlotRows(values))
         ELSE Chart("grouped_bar", cat_cols[1], numeric_cols, PlotRows(values))
    ELSE NoCategoryChart(values, numeric_cols)

\* the columns of df: a Series becomes the table (Category, Value)
FrameColumns(result) ==
    IF result.type = "Series"
    THEN <<Column("Category", result.columns[1].numeric),
           Column("Value", result.columns[2].numeric)>>
    ELSE result.columns

\* variant: the figure handed back as it is, whether or not plotly raised
BuiltUnguarded(fig, plots) ==
    IF plots \/ fig = NoChart THEN fig ELSE [kind |-> "ValueError"]

\* the try block of create_visualization: the figure, or None when building it
\* raised
Built(fig, plots) == IF plots THEN fig ELSE NoChart

\* the figure create_visualization sets out to build: none for a failure or a
\* result that is no DataFrame or Series
PlotDecision(execution_result) ==
    IF ~execution_result.success THEN NoChart
    ELSE IF execution_result.result.type \notin {"DataFrame", "Series"} THEN NoChart
    ELSE ChartFor(execution_result.result.values,
                  Names(FrameColumns(execution_result.result), TRUE),
                  Names(FrameColumns(execution_result.result), FALSE))

\* create_visualization: only a successful DataFrame or Series is charted
create_visualization(question, execution_result) ==
    IF PlotDecision(execution_result) = NoChart THEN NoChart
    ELSE Built(PlotDecision(execution_result), execution_result.result.plots)

\* the text query_with_code_generation returns when execution failed
ExecutionFailedMessage(code, error) ==
    "**Code Generation Approach**\n\nI generated pandas code to answer your question, but execution failed:\n\n**Generated Code:**\n"
    \o Fence \o "python\n" \o code \o "\n" \o Fence \o "\n\n**Error:**\n" \o error
    \o "\n\nLet me try a different approach or please rephrase your question."

\* a str answer; the dict answer is a record with analysis, code and result_type
Text(s) == [text |-> s]

\* the outcome of a pipeline call: what it returned or raised, the steps it went
\* through and the LLM calls it made
Outcome(raised, value, stepsDone, calls) ==
    [raised |-> raised, value |-> value, steps |-> stepsDone, llm_calls |-> calls]

\* the steps of query_with_code_generation up to execute_code
UpToExecution == <<"_build_data_context", "generate_code", "execute_code">>

\* query_with_code_generation once execute_code is through: the failure text, or
\* analysis and visualization
AfterExecution(question, code, execution, ana) ==
    IF execution.raised
    THEN Outcome(TRUE, execution.value, UpToExecution, 1)
    ELSE IF ~execution.value.success
    THEN Outcome(FALSE,
                 <<Text(ExecutionFailedMessage(code, execution.value.error)), NoChart>>,
                 UpToExecution, 1)
    ELSE Outcome(FALSE,
                 <<[analysis |-> analyze_results(question, execution.value, ana),
                    code |-> code,
                    result_type |-> execution.value.result_type],
                   create_visualization(question, execution.value)>>,
                 UpToExecution \o <<"analyze_results", "create_visualization">>, 2)

\* variant: a failed execution is followed by a second generation and execution
AfterGenerationRetrying(question, dl, code, ana) ==
    LET first == execute_code(code, dl)
        again == AfterExecution(question, code, execute_code(code, dl), ana)
    IN  IF ~first.raised /\ ~first.value.success
        THEN Outcome(again.raised, again.value,
                     UpToExecution \o <<"generate_code", "execute_code">>
                     \o SubSeq(again.steps, 4, Len(again.steps)),
                     again.llm_calls + 1)
        ELSE AfterExecution(question, code, first, ana)

\* query_with_code_generation once the code is generated
AfterGeneration(question, dl, code, ana) ==
    AfterExecution(question, code, execute_code(code, dl), ana)

\* query_with_code_generation once the data context is built
AfterContext(question, dl, data_context, gen, ana) ==
    IF data_context.raised
    THEN Outcome(TRUE, data_context.value, <<"_build_data_context">>, 0)
    ELSE AfterGeneration(question, dl, GeneratedCode[gen], ana)

\* query_with_code_generation: context, generation, execution, then analysis and
\* visualization when execution succeeded
query_with_code_generation(question, dl, gen, ana) ==
    AfterContext(question, dl, _build_data_context(dl), gen, ana)

\* ---------------------------------------------------------------- actions
Init ==
    /\ max_history \in 0..MaxHistoryCfg
    /\ conversation_history = <<>>
    /\ op = "__init__"
    /\ ret = None
    /\ before = <<>>
    /\ request = <<>>
    /\ sends = 0
    /\ sysInserts = 0
    /\ prev_op = None
    /\ args = None
    /\ llm = None
    /\ llm_backend = None
    /\ code_generator = None
    /\ llm_available = FALSE
    /\ use_code_generation = FALSE
    /\ data_loader = None
    /\ steps = <<>>
    /\ llm_calls = 0
    /\ trace = <<>>
    /\ cached = 0
    /\ session_agent = NoSessions

send_message ==
    \E user_message \in UserMessages, system_message \in SystemMessages,
       llm_out \in LLMOutcomes :
        LET messages == BuildMessages(conversation_history, max_history,
                                      user_message, system_message)
            response == chat_completion(messages, llm_out)
        IN  /\ sends < MaxSends
            /\ sends' = sends + 1
            /\ request' = messages
            /\ sysInserts' = IF messages[1].role = "system"
                             THEN sysInserts + 1 ELSE sysInserts
            /\ before' = conversation_history
            /\ conversation_history' =
                   HistoryAfterSend(conversation_history, max_history,
                                    user_message, response)
            /\ prev_op' = op
            /\ op' = "send_message"
            /\ args' = [user_message |-> user_message, system_message |-> system_message]
            /\ llm' = llm_out
            /\ ret' = response
            /\ UNCHANGED <<max_history, agentVars, sessionVars>>

undo_last_exchange ==
    LET r == UndoLastExchange(conversation_history)
    IN  /\ before' = conversation_history
        /\ conversation_history' = r.history
        /\ prev_op' = op
        /\ op' = "undo_last_exchange"
        /\ args' = None
        /\ ret' = r.ret
        /\ UNCHANGED <<max_history, request, sends, sysInserts, llm, agentVars,
                     sessionVars>>

clear_history ==
    /\ before' = conversation_history
    /\ conversation_history' = ClearHistory(conversation_history)
    /\ sysInserts' = 0
    /\ prev_op' = op
    /\ op' = "clear_history"
    /\ args' = None
    /\ ret' = None
    /\ UNCHANGED <<max_history, request, sends, llm, agentVars, sessionVars>>

Next == send_message \/ undo_last_exchange \/ clear_history

Spec == Init /\ [][Next]_vars

\* ---------------------------------------------------------------- QueryAgent
\* the fixed answer of query when the LLM is not available (its leading
\* cross-mark glyph is left out)
UnavailableMessage ==
    " LLM is not available. Please ensure LlamaStack server is running and configured correctly."

\* the optional use_code_gen argument of query: left unset (None), or a bool
Unset == [set |-> FALSE, value |-> FALSE]
Given(b) == [set |-> TRUE, value |-> b]

\* the fields QueryAgent.__init__ sets; probe is what the availability probe's
\* LLM call did
QueryAgentInit(dl, use_llamastack, LLM_HANDLER_AVAILABLE, probe) ==
    IF use_llamastack /\ LLM_HANDLER_AVAILABLE
    THEN [data_loader |-> dl, llm_backend |-> "LlamaStackLLM",
          code_generator |-> "PandasCodeGenerator",
          llm_available |-> is_available(probe), use_code_generation |-> TRUE]
    ELSE [data_loader |-> dl, llm_backend |-> None, code_generator |-> None,
          llm_available |-> FALSE, use_code_generation |-> FALSE]

\* the except handler of _query_with_llm: its f-string calls
\* self._fallback_query(question)
NarrativeHandler(body) ==
    IF body.raised /\ IsException(body.value)
    THEN IF "_fallback_query" \in QueryAgentMethods
         THEN Outcome(FALSE,
                      "Error with LLM query: " \o body.value
                      \o "\n\nFalling back to simple analysis...\n\n",
                      body.steps \o <<"_fallback_query">>, body.llm_calls)
         ELSE Outcome(TRUE, "AttributeError",
                      body.steps \o <<"_fallback_query">>, body.llm_calls)
    ELSE body

\* the steps of the try body up to the backend call
PromptSteps(query_type) ==
    <<"classify_query", "build_data_summary">>
    \o (IF query_type = "general" THEN <<"build_context", "build_system_prompt">>
        ELSE <<>>)

\* the answer of the narrative path: the intent label, then the reply
NarrativeAnswer(query_type, response) ==
    "**Query Type:** " \o Title(query_type) \o "\n\n" \o response

\* the try body of _query_with_llm once the question is classified and the
\* summary and context are built: the system message, then the backend call
NarrativeBody(query_type, data_summary, data_context, use_history, out) ==
    IF data_summary.raised
    THEN Outcome(TRUE, data_summary.value,
                 <<"classify_query", "build_data_summary">>, 0)
    ELSE IF query_type = "general" /\ data_context.raised
    THEN Outcome(TRUE, data_context.value,
                 <<"classify_query", "build_data_summary", "build_context">>, 0)
    ELSE IF use_history
    THEN \* self.llm_backend.chat_with_history(...)
         IF "chat_with_history" \in LlamaStackLLMMethods
         THEN Outcome(FALSE, NarrativeAnswer(query_type, chat_completion(<<>>, out)),
                      PromptSteps(query_type) \o <<"chat_with_history">>, 1)
         ELSE Outcome(TRUE, "AttributeError",
                      PromptSteps(query_type) \o <<"chat_with_history">>, 0)
    ELSE Outcome(FALSE, NarrativeAnswer(query_type, chat_completion(<<>>, out)),
                 PromptSteps(query_type) \o <<"chat_completion">>, 1)

\* _query_with_llm: the narrative-only path
_query_with_llm(question, use_history, dl, out) ==
    NarrativeHandler(
        NarrativeBody(QueryType[question], build_data_summary(dl), build_context(dl),
                      use_history, out))

\* the (text, None) pair query builds from the narrative path's answer
NarrativeOnly(n, stepsBefore, callsBefore) ==
    Outcome(n.raised,
            IF n.raised THEN n.value ELSE <<Text(n.value), NoChart>>,
            stepsBefore \o <<"_query_with_llm">> \o n.steps,
            callsBefore + n.llm_calls)

\* query once the code-generation path is through: its result, or the narrative
\* path when it raised an Exception
AfterCodeGeneration(agent, question, r, ana) ==
    IF r.raised /\ IsException(r.value)
    THEN NarrativeOnly(_query_with_llm(question, TRUE, agent.data_loader, ana),
                       <<"query_with_code_generation">> \o r.steps, r.llm_calls)
    ELSE Outcome(r.raised, r.value, <<"query_with_code_generation">> \o r.steps,
                 r.llm_calls)

\* variant: query that takes an unset use_code_gen for False
QueryAvailableUnsetIsFalse(agent, question, use_code_gen, gen, ana) ==
    IF /\ use_code_gen.set /\ use_code_gen.value
       /\ agent.code_generator # None
    THEN AfterCodeGeneration(
             agent, question,
             query_with_code_generation(question, agent.data_loader, gen, ana), ana)
    ELSE NarrativeOnly(_query_with_llm(question, TRUE, agent.data_loader, ana),
                       <<>>, 0)

\* query past the availability check
QueryAvailable(agent, question, use_code_gen, gen, ana) ==
    IF /\ IF use_code_gen.set THEN use_code_gen.value ELSE agent.use_code_generation
       /\ agent.code_generator # None
    THEN AfterCodeGeneration(
             agent, question,
             query_with_code_generation(question, agent.data_loader, gen, ana), ana)
    ELSE NarrativeOnly(_query_with_llm(question, TRUE, agent.data_loader, ana),
                       <<>>, 0)

\* variant: query without the availability short-circuit
QueryOutcomeNoAvailabilityCheck(agent, question, use_code_gen, gen, ana) ==
    IF agent.llm_backend # None
    THEN QueryAvailable(agent, question, use_code_gen, gen, ana)
    ELSE Outcome(TRUE, "AttributeError", <<"_query_with_llm">>, 0)

\* query: what it returns or raises for a question
QueryOutcome(agent, question, use_code_gen, gen, ana) ==
    IF ~agent.llm_available
    THEN Outcome(FALSE, <<Text(UnavailableMessage), NoChart>>, <<>>, 0)
    ELSE QueryAvailable(agent, question, use_code_gen, gen, ana)

\* undo_last_query: undo_last_exchange of the backend, False without a backend
undo_last_query_result(backend, history) ==
    IF backend # None THEN UndoLastExchange(history)
    ELSE [history |-> history, ret |-> FALSE]

\* ---------------------------------------------------------------- agent state
\* the agent as query sees it
Agent ==
    [data_loader |-> data_loader, llm_backend |-> llm_backend,
     code_generator |-> code_generator, llm_available |-> llm_available,
     use_code_generation |-> use_code_generation]

\* a query that came back with the analysis bundle, its analysis an LLM reply
IsBundle(out) ==
    /\ ~out.raised
    /\ "analysis" \in DOMAIN out.value[1]
    /\ ~StartsWith(out.value[1].analysis, "Error")

\* ---------------------------------------------------------------- agent actions
InitAgent ==
    \E dl \in DataLoaders, use_llamastack \in BOOLEAN,
       LLM_HANDLER_AVAILABLE \in BOOLEAN, probe \in ProbeOutcomes :
        LET a == QueryAgentInit(dl, use_llamastack, LLM_HANDLER_AVAILABLE, probe)
        IN  /\ data_loader = a.data_loader
            /\ llm_backend = a.llm_backend
            /\ code_generator = a.code_generator
            /\ llm_available = a.llm_available
            /\ use_code_generation = a.use_code_generation
            /\ max_history = DefaultMaxHistory
            /\ conversation_history = <<>>
            /\ op = "__init__"
            /\ ret = None
            /\ before = <<>>
            /\ request = <<>>
            /\ sends = 0
            /\ sysInserts = 0
            /\ prev_op = None
            /\ args = None
            /\ llm = None
            /\ steps = <<>>
            /\ llm_calls = IF a.llm_backend # None THEN 1 ELSE 0
            /\ trace = <<>>
            /\ cached = 0
            /\ session_agent = NoSessions

\* the last n calls of a trace
LastCalls(s, n) == IF Len(s) <= n THEN s ELSE SubSeq(s, Len(s) - n + 1, Len(s))

\* variant: every call probes the backend again and finds the server up
CalledProbingAgain(name, arguments, ok) ==
    /\ trace' = LastCalls(Append(trace, [op |-> name, ok |-> ok]), RecentCalls)
    /\ prev_op' = op
    /\ op' = name
    /\ args' = arguments
    /\ before' = conversation_history
    /\ llm_available' = (llm_backend # None)
    /\ UNCHANGED <<max_history, request, sends, sysInserts, llm, llm_backend,
                   code_generator, use_code_generation, sessionVars>>

\* bookkeeping shared by the agent's calls
Called(name, arguments, ok) ==
    /\ trace' = LastCalls(Append(trace, [op |-> name, ok |-> ok]), RecentCalls)
    /\ prev_op' = op
    /\ op' = name
    /\ args' = arguments
    /\ before' = conversation_history
    /\ UNCHANGED <<max_history, request, sends, sysInserts, llm, llm_backend,
                   code_generator, llm_available, use_code_generation, sessionVars>>

\* the outcome of a call, as the caller sees it
Returns(out) ==
    /\ ret' = [raised |-> out.raised, value |-> out.value]
    /\ steps' = out.steps
    /\ llm_calls' = out.llm_calls

\* one call of query; gen and ana are what the LLM does when asked for the
\* program and for the analysis
QueryCall(question, use_code_gen, gen, ana) ==
    /\ Returns(QueryOutcome(Agent, question, use_code_gen, gen, ana))
    /\ Called("query", [question |-> question, use_code_gen |-> use_code_gen],
              IsBundle(ret'))
    /\ data_loader' = IF \E i \in DOMAIN steps' : steps'[i] = "execute_code"
                      THEN DataAfter(GeneratedCode[gen], data_loader)
                      ELSE data_loader
    /\ UNCHANGED conversation_history

query ==
    \E question \in Questions, use_code_gen \in {Unset, Given(TRUE), Given(FALSE)},
       gen \in GenOutcomes, ana \in AnalysisOutcomes :
        QueryCall(question, use_code_gen, gen, ana)

clear_conversation ==
    /\ Called("clear_conversation", None, TRUE)
    /\ UNCHANGED data_loader
    /\ conversation_history' =
           IF llm_backend # None THEN ClearHistory(conversation_history)
           ELSE conversation_history
    /\ ret' = None
    /\ steps' = IF llm_backend # None THEN <<"clear_history">> ELSE <<>>
    /\ llm_calls' = 0

undo_last_query ==
    LET r == undo_last_query_result(llm_backend, conversation_history)
    IN  /\ Called("undo_last_query", None, r.ret)
        /\ UNCHANGED data_loader
        /\ conversation_history' = r.history
        /\ ret' = r.ret
        /\ steps' = IF llm_backend # None THEN <<"undo_last_exchange">> ELSE <<>>
        /\ llm_calls' = 0

get_conversation_summary ==
    /\ Called("get_conversation_summary", None, TRUE)
    /\ UNCHANGED data_loader
    /\ ret' = IF llm_backend # None THEN get_history_summary(conversation_history)
              ELSE [message_count |-> None]
    /\ steps' = IF llm_backend # None THEN <<"get_history_summary">> ELSE <<>>
    /\ llm_calls' = 0
    /\ UNCHANGED conversation_history

NextAgent == query \/ clear_conversation \/ undo_last_query \/ get_conversation_summary

SpecAgent == InitAgent /\ [][NextAgent]_vars

\* ---------------------------------------------------------------- app sessions
\* the Streamlit process before any browser session has run app.py: nothing is
\* cached; data_loader is what load_data will read from the workbooks
InitSessions ==
    /\ data_loader \in DataLoaders \ {UnloadedData}
    /\ llm_backend = None
    /\ code_generator = None
    /\ llm_available = FALSE
    /\ use_code_generation = FALSE
    /\ max_history = DefaultMaxHistory
    /\ conversation_history = <<>>
    /\ op = "__init__"
    /\ ret = None
    /\ before = <<>>
    /\ request = <<>>
    /\ sends = 0
    /\ sysInserts = 0
    /\ prev_op = None
    /\ args = None
    /\ llm = None
    /\ steps = <<>>
    /\ llm_calls = 0
    /\ trace = <<>>
    /\ cached = 0
    /\ session_agent = NoSessions

\* initialize_components under st.cache_resource, first call: QueryAgent(_loader)
\* is built (with its availability probe) and kept in the cache
InitializeComponents(s, LLM_HANDLER_AVAILABLE, probe) ==
    LET a == QueryAgentInit(data_loader, TRUE, LLM_HANDLER_AVAILABLE, probe)
    IN  /\ cached' = 1
        /\ session_agent' = [session_agent EXCEPT ![s] = 1]
        /\ llm_backend' = a.llm_backend
        /\ code_generator' = a.code_generator
        /\ llm_available' = a.llm_available
        /\ use_code_generation' = a.use_code_generation
        /\ llm_calls' = IF a.llm_backend # None THEN 1 ELSE 0

\* initialize_components under st.cache_resource, later calls: the cached
\* QueryAgent is returned and nothing is built or probed
CachedComponents(s) ==
    /\ session_agent' = [session_agent EXCEPT ![s] = cached]
    /\ llm_calls' = 0
    /\ UNCHANGED <<cached, llm_backend, code_generator, llm_available,
                   use_code_generation>>

\* a browser session runs main() for the first time
OpenSession ==
    \E s \in Sessions, LLM_HANDLER_AVAILABLE \in BOOLEAN, probe \in ProbeOutcomes :
        /\ session_agent[s] = 0
        /\ IF cached = 0
           THEN InitializeComponents(s, LLM_HANDLER_AVAILABLE, probe)
           ELSE CachedComponents(s)
        /\ prev_op' = op
        /\ op' = "initialize_components"
        /\ args' = None
        /\ ret' = None
        /\ steps' = <<>>
        /\ UNCHANGED <<max_history, conversation_history, before, request, sends,
                       sysInserts, llm, data_loader, trace>>

\* the Get Answer button: query(question, use_code_gen=True)
AskQuestion ==
    \E s \in Sessions, question \in Questions, gen \in GenOutcomes,
       ana \in AnalysisOutcomes :
        /\ session_agent[s] # 0
        /\ QueryCall(question, Given(TRUE), gen, ana)

\* the Clear History button, shown when the LLM is available
ClearHistoryButton ==
    \E s \in Sessions :
        /\ session_agent[s] # 0
        /\ llm_available
        /\ clear_conversation

\* the Undo Last button, shown when the LLM is available
UndoLastButton ==
    \E s \in Sessions :
        /\ session_agent[s] # 0
        /\ llm_available
        /\ undo_last_query

NextSessions == OpenSession \/ AskQuestion \/ ClearHistoryButton \/ UndoLastButton

SpecSessions == InitSessions /\ [][NextSessions]_vars

\* ---------------------------------------------------------------- classification
\* words the questions put to classify_query are made of: one keyword of each
\* vocabulary (two of them not in lower case), a word holding no keyword, and a
\* word holding the keyword "than" inside it
Words == <<"Sales", "versus", "OUTLIER", "why", "Hello", "thanks">>

\* the words joined by single spaces
RECURSIVE Sentence(_)
Sentence(ws) ==
    IF Len(ws) = 1 THEN Words[ws[1]]
    ELSE Sentence(SubSeq(ws, 1, Len(ws) - 1)) \o " " \o Words[ws[Len(ws)]]

ClassifiedQuestions ==
    {Sentence(ws) : ws \in UNION {[1..n -> 1..Len(Words)] : n \in 1..MaxWords}}

\* ------------------------------------------------- formatting and charting
\* the results: DataFrames by their columns, Series by their index and their
\* values, each drawn by plotly or not, and the results that are no table
ResultValues ==
    LET \* the numbers of a table of n rows: rising, falling, all equal, mixed
        RowValues(n) ==
            {[i \in 1..n |-> i], [i \in 1..n |-> n + 1 - i], [i \in 1..n |-> 5],
             [i \in 1..n |-> (i * 7) % 5]}
    IN
    UNION {{Table("DataFrame", v, c, p) :
                v \in RowValues(n),
                c \in {<<Column("Region", FALSE), Column("TotalPrice", TRUE)>>,
                       <<Column("TotalPrice", TRUE), Column("Region", FALSE)>>,
                       <<Column("Region", FALSE), Column("Product", FALSE)>>,
                       <<Column("TotalPrice", TRUE)>>,
                       <<Column("Quantity", TRUE), Column("TotalPrice", TRUE)>>,
                       <<Column("Quantity", TRUE), Column("TotalPrice", TRUE),
                         Column("UnitCost", TRUE)>>,
                       <<Column("Date", FALSE), Column("Quantity", TRUE),
                         Column("TotalPrice", TRUE)>>,
                       <<Column("Region", FALSE), Column("Quantity", TRUE),
                         Column("TotalPrice", TRUE)>>},
                p \in BOOLEAN}
           \cup {Table("Series", v, c, p) :
                v \in RowValues(n),
                c \in {<<Column("StoreID", FALSE), Column("TotalPrice", TRUE)>>,
                       <<Column("StoreID", TRUE), Column("TotalPrice", TRUE)>>,
                       <<Column("StoreID", FALSE), Column("Region", FALSE)>>},
                p \in BOOLEAN} : n \in 0..MaxRows}
    \cup {Scalar("int", "42"), Scalar("float", "3.5"), Scalar("str", "North"),
          Scalar("list", "['North', 'South']")}
    \cup {Mapping(AllRows([i \in 1..n |-> i])) : n \in {0, 2, MaxRows}}
\* the result dicts execute_code hands on
ExecutionResults ==
    {[success |-> TRUE, result |-> r, code |-> SeriesProgram, result_type |-> r.type] :
        r \in ResultValues}
    \cup {[success |-> FALSE, error |-> "'StoreID'", traceback |-> "KeyError: 'StoreID'",
           code |-> SeriesProgram],
          [success |-> FALSE, error |-> "Code did not produce a 'result' variable",
           code |-> NoResultProgram]}

InitResults ==
    /\ args \in [execution_result : ExecutionResults]
    /\ data_loader = LoadedData
    /\ llm_backend = "LlamaStackLLM"
    /\ code_generator = "PandasCodeGenerator"
    /\ llm_available = TRUE
    /\ use_code_generation = TRUE
    /\ max_history = DefaultMaxHistory
    /\ conversation_history = <<>>
    /\ op = "execute_code"
    /\ ret = None
    /\ before = <<>>
    /\ request = <<>>
    /\ sends = 0
    /\ sysInserts = 0
    /\ prev_op = None
    /\ llm = None
    /\ steps = <<>>
    /\ llm_calls = 0
    /\ trace = <<>>
    /\ cached = 0
    /\ session_agent = NoSessions

\* format_result on the result in args
FormatResult ==
    /\ op' = "format_result"
    /\ steps' = <<"format_result">>
    /\ ret' = format_result(args.execution_result)
    /\ UNCHANGED <<max_history, conversation_history, before, request, sends,
                   sysInserts, prev_op, args, llm, llm_backend, code_generator,
                   llm_available, use_code_generation, data_loader, llm_calls,
                   trace, sessionVars>>

\* create_visualization on the result in args
CreateVisualization ==
    /\ op' = "create_visualization"
    /\ steps' = <<"create_visualization">>
    /\ ret' = create_visualization("", args.execution_result)
    /\ UNCHANGED <<max_history, conversation_history, before, request, sends,
                   sysInserts, prev_op, args, llm, llm_backend, code_generator,
                   llm_available, use_code_generation, data_loader, llm_calls,
                   trace, sessionVars>>

NextResults ==
    \/ FormatResult
    \/ CreateVisualization

SpecResults == InitResults /\ [][NextResults]_vars

\* a question is about to be classified
InitClassify ==
    /\ args \in [question : ClassifiedQuestions]
    /\ data_loader = None
    /\ llm_backend = None
    /\ code_generator = None
    /\ llm_available = FALSE
    /\ use_code_generation = FALSE
    /\ max_history = DefaultMaxHistory
    /\ conversation_history = <<>>
    /\ op = "__init__"
    /\ ret = None
    /\ before = <<>>
    /\ request = <<>>
    /\ sends = 0
    /\ sysInserts = 0
    /\ prev_op = None
    /\ llm = None
    /\ steps = <<>>
    /\ llm_calls = 0
    /\ trace = <<>>
    /\ cached = 0
    /\ session_agent = NoSessions

ClassifyQuery ==
    /\ op' = "classify_query"
    /\ ret' = classify_query(args.question)
    /\ prev_op' = op
    /\ UNCHANGED <<args, max_history, conversation_history, before, request, sends,
                   sysInserts, llm, agentVars, sessionVars>>

NextClassify == ClassifyQuery

SpecClassify == InitClassify /\ [][NextClassify]_vars

\* ---------------------------------------------------------------- generator actions
\* a PandasCodeGenerator and a DataContextBuilder on a data loader, called directly
InitGenerator ==
    /\ data_loader \in DataLoaders
    /\ llm_backend = "LlamaStackLLM"
    /\ code_generator = "PandasCodeGenerator"
    /\ llm_available = TRUE
    /\ use_code_generation = TRUE
    /\ max_history = DefaultMaxHistory
    /\ conversation_history = <<>>
    /\ op = "__init__"
    /\ ret = None
    /\ before = <<>>
    /\ request = <<>>
    /\ sends = 0
    /\ sysInserts = 0
    /\ prev_op = None
    /\ args = None
    /\ llm = None
    /\ steps = <<>>
    /\ llm_calls = 0
    /\ trace = <<>>
    /\ cached = 0
    /\ session_agent = NoSessions

\* bookkeeping shared by the direct calls
GeneratorCalled(name, arguments) ==
    /\ prev_op' = op
    /\ op' = name
    /\ args' = arguments
    /\ UNCHANGED <<max_history, conversation_history, before, request, sends,
                   sysInserts, llm_backend, code_generator, llm_available,
                   use_code_generation, trace, sessionVars>>

ExecuteCode ==
    \E code \in Programs :
        /\ GeneratorCalled("execute_code", [code |-> code])
        /\ ret' = execute_code(code, data_loader)
        /\ data_loader' = DataAfter(code, data_loader)
        /\ steps' = <<"execute_code">>
        /\ llm_calls' = 0
        /\ llm' = None

QueryWithCodeGeneration ==
    \E question \in Questions, gen \in GenOutcomes, ana \in AnalysisOutcomes :
        /\ GeneratorCalled("query_with_code_generation", [question |-> question])
        /\ Returns(query_with_code_generation(question, data_loader, gen, ana))
        /\ data_loader' = IF \E i \in DOMAIN steps' : steps'[i] = "execute_code"
                          THEN DataAfter(GeneratedCode[gen], data_loader)
                          ELSE data_loader
        /\ llm' = gen

\* a builder returns: it read the datasets and made no LLM call
BuilderReturns(result) ==
    /\ ret' = result
    /\ llm_calls' = 0
    /\ llm' = None
    /\ UNCHANGED data_loader

BuildContext ==
    /\ GeneratorCalled("build_context", None)
    /\ steps' = <<"build_context">>
    /\ BuilderReturns(build_context(data_loader))

BuildDataSummary ==
    /\ GeneratorCalled("build_data_summary", None)
    /\ steps' = <<"build_data_summary">>
    /\ BuilderReturns(build_data_summary(data_loader))

BuildDataContext ==
    /\ GeneratorCalled("_build_data_context", None)
    /\ steps' = <<"_build_data_context">>
    /\ BuilderReturns(_build_data_context(data_loader))

NextGenerator ==
    \/ ExecuteCode
    \/ QueryWithCodeGeneration
    \/ BuildContext
    \/ BuildDataSummary
    \/ BuildDataContext

SpecGenerator == InitGenerator /\ [][NextGenerator]_vars

\* ---------------------------------------------------------------- conversation memory
\* the exchange the last send_message tried to store
LastPair == <<Entry("user", args.user_message), Entry("assistant", ret)>>
\* the last n entries of s
LastEntries(s, n) == [i \in 1..Min(n, Len(s)) |-> s[Len(s) - Min(n, Len(s)) + i]]
SentOk == op = "send_message" /\ ~StartsWith(ret, "Error")

\* C1: after every call the history holds at most 2 x max_history entries,
\* whatever max_history was configured.
C1_HistoryWithinCap == Len(conversation_history) <= 2 * max_history

\* C2: a stored exchange that pushes the history above the cap leaves exactly
\* the most recent 2 x max_history entries of the untrimmed sequence, in order,
\* the new user/assistant pair last.
C2_FifoEviction ==
    (SentOk /\ Len(before) + 2 > 2 * max_history) =>
        /\ conversation_history = LastEntries(before \o LastPair, 2 * max_history)
        /\ LastEntries(conversation_history, 2) = LastPair

\* C3: undo_last_exchange removes exactly the last two entries and returns True
\* when at least two entries exist; otherwise it returns False and changes nothing.
C3_UndoRemovesOneExchange ==
    op = "undo_last_exchange" =>
        IF Len(before) >= 2
        THEN /\ ret = TRUE
             /\ Len(conversation_history) = Len(before) - 2
             /\ \A i \in 1..Len(conversation_history) : conversation_history[i] = before[i]
        ELSE /\ ret = FALSE
             /\ conversation_history = before

\* an undo after exactly one exchange has emptied the history
C3_Witness ==
    /\ op = "undo_last_exchange"
    /\ Len(before) = 2
    /\ ret = TRUE
    /\ conversation_history = <<>>

\* C4: clear_history leaves the history empty, and an undo issued right after a
\* clear returns False and leaves it empty.
C4_ClearThenUndo ==
    /\ op = "clear_history" => conversation_history = <<>>
    /\ (op = "undo_last_exchange" /\ prev_op = "clear_history") =>
           (ret = FALSE /\ conversation_history = <<>>)

\* an undo right after a clear, in a run that had stored something
C4_Witness ==
    /\ op = "undo_last_exchange"
    /\ prev_op = "clear_history"
    /\ sends > 0
    /\ ret = FALSE

\* C6: send_message appends the user entry then the assistant entry when the
\* LLM call succeeded, and leaves the history unchanged when it failed.
C6_AppendIffLLMSucceeded ==
    op = "send_message" =>
        IF llm.ok
        THEN /\ Len(conversation_history) >= 2
             /\ LastEntries(conversation_history, 2) = LastPair
             /\ conversation_history =
                    LastEntries(before \o LastPair, Len(conversation_history))
        ELSE conversation_history = before

\* C7: within one session the leading system entry is inserted at most once.
C7_SystemInsertedOnce == sysInserts <= 1

\* C7, as the code has it: a request carries a system entry exactly when a
\* non-empty system message was supplied and the stored history was empty when
\* the call started; the entry leads the request and is never stored.
C7_SystemOnlyWhenHistoryEmpty ==
    /\ op = "send_message" =>
          /\ (request[1].role = "system") <=>
                 (Truthy(args.system_message) /\ Len(before) = 0)
          /\ \A i \in 2..Len(request) : request[i].role # "system"
    /\ \A i \in 1..Len(conversation_history) : conversation_history[i].role # "system"

\* a second system entry within one session
C7_Witness ==
    /\ op = "send_message"
    /\ request[1].role = "system"
    /\ sysInserts = 2

\* ---------------------------------------------------------------- query orchestration
\* the call ran the step
Ran(step) == \E i \in DOMAIN steps : steps[i] = step

\* C5: two consecutive successful calls to query followed by one
\* undo_last_query leave exactly 2 entries in the history, and the undo
\* returns True.
C5_TwoQueriesThenUndo ==
    (/\ Len(trace) >= 3
     /\ trace[Len(trace) - 2] = [op |-> "query", ok |-> TRUE]
     /\ trace[Len(trace) - 1] = [op |-> "query", ok |-> TRUE]
     /\ op = "undo_last_query") =>
        (Len(conversation_history) = 2 /\ ret = TRUE)

\* C8: query never raises to its caller, and when the code-generation path
\* raised it returns the narrative path's (text, None) pair.
C8_NeverRaises ==
    op = "query" =>
        /\ ~ret.raised
        /\ (Ran("query_with_code_generation") /\ Ran("_query_with_llm")) =>
               ("text" \in DOMAIN ret.value[1] /\ ret.value[2] = NoChart)

\* C9: when a step of the narrative path failed, the path returns the
\* deterministic summary as text and the failure does not escape.
C9_NarrativeFailureContained ==
    (op = "query" /\ Ran("_fallback_query")) =>
        (~ret.raised /\ "text" \in DOMAIN ret.value[1])

\* C10: with the LLM unavailable after construction, query returns the fixed
\* unavailability message with no chart and makes no LLM call, whatever the
\* question and use_code_gen.
C10_UnavailableShortCircuit ==
    (op = "query" /\ ~llm_available) =>
        /\ ret = Returned(<<Text(UnavailableMessage), NoChart>>)
        /\ llm_calls = 0
        /\ steps = <<>>

\* a query asking for code generation on an agent whose probe failed
C10_Witness ==
    /\ op = "query"
    /\ ~llm_available
    /\ llm_backend # None
    /\ args.use_code_gen = Given(TRUE)
    /\ ret.value[1] = Text(UnavailableMessage)

\* ---------------------------------------------------------------- execution engine
\* C11: execute_code never propagates an exception raised by the executed
\* program: it returns, whatever the program did.
C11_NoExceptionPropagates == op = "execute_code" => ~ret.raised

\* C12: every Failure that execute_code returns for a program that raised
\* carries a non-empty error message.
C12_FailureCarriesMessage ==
    (op = "execute_code" /\ ~ret.raised /\ "traceback" \in DOMAIN ret.value) =>
        (~ret.value.success /\ ret.value.error # "")

\* C13: a program that completes without binding `result` (or binds it to
\* None) gets a Failure from execute_code; a Success carries a value that is
\* not None together with the name of its type.
C13_NoResultIsFailure ==
    (op = "execute_code" /\ ~ret.raised) =>
        /\ (/\ args.code \in {NoResultProgram, NoneProgram}
            /\ "traceback" \notin DOMAIN ret.value) =>
               (~ret.value.success /\ "result" \notin DOMAIN ret.value)
        /\ ret.value.success =>
               /\ "result" \in DOMAIN ret.value
               /\ ret.value.result_type # "NoneType"
               /\ ret.value.result_type = ret.value.result.type
               /\ ret.value.code = args.code

\* a program that ran to its end on loaded data without binding result
C13_Witness ==
    /\ op = "execute_code"
    /\ args.code = NoResultProgram
    /\ data_loader.store_transactions.present
    /\ ~ret.raised
    /\ ~ret.value.success
    /\ "traceback" \notin DOMAIN ret.value

\* C14: the execution engine never mutates the data store: the four datasets
\* of the data loader are the same after every call as before it.
C14_DatasetsNeverMutated == [][data_loader' = data_loader]_vars

\* what exec did with the program generated in the last call (a program's
\* outcome does not depend on the column it may have added)
LastRun == RunProgram(GeneratedCode[llm], data_loader)

\* C15: when execution of the generated program fails,
\* query_with_code_generation returns a text holding the program and the error
\* message verbatim with chart None, after the one generation LLM call and
\* without analysis or visualization; when it succeeds it returns
\* {analysis, code, result_type} and the visualizer's result.
C15_FailureSurfacedVerbatim ==
    (op = "query_with_code_generation" /\ Ran("execute_code")) =>
        IF LastRun.kind = "assigns"
        THEN /\ ~ret.raised
             /\ DOMAIN ret.value[1] = {"analysis", "code", "result_type"}
             /\ ret.value[1].code = GeneratedCode[llm]
             /\ ret.value[1].result_type = LastRun.value.type
             /\ Ran("analyze_results") /\ Ran("create_visualization")
             /\ llm_calls = 2
        ELSE /\ ~ret.raised
             /\ DOMAIN ret.value[1] = {"text"}
             /\ Contains(ret.value[1].text, GeneratedCode[llm])
             /\ Contains(ret.value[1].text,
                         IF LastRun.kind = "raises" THEN LastRun.msg
                         ELSE "Code did not produce a 'result' variable")
             /\ ret.value[2] = NoChart
             /\ ~Ran("analyze_results") /\ ~Ran("create_visualization")
             /\ llm_calls = 1

\* C16: a failure at the code-generation/execution boundary during query (the
\* generation call errors, the program raises, or it produces no result) is
\* recovered by the narrative-only path, whose answer the caller receives.
C16_BoundaryFailureFallsBack ==
    (op = "query" /\ Ran("execute_code") /\ ~Ran("analyze_results")) =>
        /\ Ran("_query_with_llm")
        /\ ~ret.raised
        /\ DOMAIN ret.value[1] = {"text"}
        /\ ret.value[2] = NoChart

\* ---------------------------------------------------------------- sessions
\* C17: concurrent sessions each have their own conversation history and their
\* own availability-probe result: no two sessions hold the same QueryAgent, so
\* nothing one session does shows in what another observes.
C17_SessionsOwnTheirAgent ==
    \A s, t \in Sessions :
        (s # t /\ session_agent[s] # 0 /\ session_agent[t] # 0) =>
            session_agent[s] # session_agent[t]

\* ---------------------------------------------------------------- intent classification
\* every keyword of the four vocabularies
AllKeywords ==
    {performance_keywords[i] : i \in DOMAIN performance_keywords}
    \cup {comparison_keywords[i] : i \in DOMAIN comparison_keywords}
    \cup {anomaly_keywords[i] : i \in DOMAIN anomaly_keywords}
    \cup {drilldown_keywords[i] : i \in DOMAIN drilldown_keywords}

\* C18: classify_query returns general exactly for the questions whose
\* lower-cased text holds no keyword of the four vocabularies as a substring.
C18_GeneralIffNoKeyword ==
    op = "classify_query" =>
        (ret = "general" <=>
            \A kw \in AllKeywords : ~Contains(Lower(args.question), kw))

\* a question without any keyword, and one whose only keyword is in upper case
C18_Witness ==
    /\ op = "classify_query"
    /\ \/ args.question = "Hello Hello" /\ ret = "general"
       \/ args.question = "Hello OUTLIER" /\ ret = "anomaly"

\* C19: the intent classify_query returns has the largest of the four scores,
\* and among non-zero scores tied for the largest it is the first in the order
\* performance, comparison, anomaly, drilldown.
C19_FirstOfTheLargest ==
    (op = "classify_query" /\ ret # "general") =>
        \E i \in 1..4 :
            /\ ret = Intents[i]
            /\ scores(args.question)[ret] > 0
            /\ \A j \in 1..4 : scores(args.question)[Intents[j]]
                                   <= scores(args.question)[ret]
            /\ \A j \in 1..(i - 1) : scores(args.question)[Intents[j]]
                                       < scores(args.question)[ret]

\* comparison returned on a tie with a later intent, ahead of a smaller earlier one
C19_Witness ==
    /\ op = "classify_query"
    /\ ret = "comparison"
    /\ scores(args.question).comparison = scores(args.question).drilldown
    /\ args.question = "versus why"

\* ---------------------------------------------------------------- context builders
\* C20: build_context, build_data_summary and _build_data_context return
\* normally for every combination of absent datasets and absent columns.
C20_BuildersNeverFail ==
    op \in {"build_context", "build_data_summary", "_build_data_context"} =>
        ~ret.raised


\* C21: a table or a series of more than 20 rows is formatted as its first 10 rows
\* and the note "(showing 10 of N ...)"; one of up to 20 rows is formatted whole,
\* without the note.
C21_LongResultsShortened ==
    (/\ op = "format_result"
     /\ args.execution_result.success
     /\ args.execution_result.result.type \in {"DataFrame", "Series"})
    => LET result == args.execution_result.result
           unit == IF result.type = "DataFrame" THEN " rows)" ELSE " values)"
       IN  IF result.nrows > 20
           THEN /\ ret.rows = [i \in 1..10 |-> i]
                /\ ret.after_rows
                     = "\n\n... (showing 10 of " \o ToString(result.nrows) \o unit
           ELSE /\ ret.rows = [i \in 1..result.nrows |-> i]
                /\ ret.after_rows = ""
                /\ ret.before_rows = ""
C21_Witness ==
    /\ op = "format_result"
    /\ args.execution_result.success
    /\ args.execution_result.result.type = "DataFrame"
    /\ args.execution_result.result.nrows = 21
    /\ Len(ret.rows) = 10
C21_WitnessWhole ==
    /\ op = "format_result"
    /\ args.execution_result.success
    /\ args.execution_result.result.type = "Series"
    /\ args.execution_result.result.nrows = 20
    /\ Len(ret.rows) = 20

\* the result create_visualization was given is a DataFrame or a Series
TableCharted ==
    /\ op = "create_visualization"
    /\ args.execution_result.success
    /\ args.execution_result.result.type \in {"DataFrame", "Series"}
\* the number of its numeric (TRUE) or of its other columns, as
\* create_visualization sees them
ColumnCount(numeric) == Len(Names(FrameColumns(args.execution_result.result), numeric))

\* C22: create_visualization returns no chart for a failure, for a result that is
\* no table and no series, for an empty table and for a table without a numeric
\* column.
C22_NoChartForIneligible ==
    op = "create_visualization" =>
        IF ~args.execution_result.success THEN ret = NoChart
        ELSE IF args.execution_result.result.type \notin {"DataFrame", "Series"}
        THEN ret = NoChart
        ELSE (\/ args.execution_result.result.nrows = 0
              \/ ColumnCount(TRUE) = 0) => ret = NoChart
C22_Witness ==
    /\ TableCharted
    /\ args.execution_result.result.nrows = 0
    /\ args.execution_result.result.plots
    /\ ColumnCount(TRUE) = 1
    /\ ColumnCount(FALSE) = 1
    /\ ret = NoChart
C22_WitnessScalar ==
    /\ op = "create_visualization"
    /\ args.execution_result.success
    /\ args.execution_result.result.type = "dict"
    /\ ret = NoChart

\* C23: of a table with one numeric column, at least one other column and more
\* than 15 rows the bar chart draws exactly 15 rows, the 15 largest by the numeric
\* column; of a table with up to 15 rows it draws every row.
C23_BarChartOfLargestRows ==
    (/\ TableCharted
     /\ args.execution_result.result.nrows > 0
     /\ args.execution_result.result.plots
     /\ ColumnCount(TRUE) = 1
     /\ ColumnCount(FALSE) >= 1)
    => LET values == args.execution_result.result.values
           drawn == {ret.rows[i] : i \in DOMAIN ret.rows}
       IN  /\ ret.kind = "bar"
           /\ drawn \subseteq DOMAIN values
           /\ Cardinality(drawn) = Len(ret.rows)
           /\ IF Len(values) > 15
              THEN /\ Len(ret.rows) = 15
                   /\ \A i \in drawn, j \in DOMAIN values \ drawn :
                          values[i] >= values[j]
              ELSE drawn = DOMAIN values
C23_Witness ==
    /\ TableCharted
    /\ args.execution_result.result.plots
    /\ ColumnCount(TRUE) = 1
    /\ ColumnCount(FALSE) >= 1
    /\ args.execution_result.result.nrows = 16
    /\ args.execution_result.result.values[16] = 16
    /\ ret.kind = "bar"
    /\ Len(ret.rows) = 15

\* C24: for a table that has rows, two numeric columns and no other column,
\* create_visualization sets out to build a scatter plot, and returns it when
\* building it does not raise; for a table without a non-numeric column and with
\* one or with three or more numeric columns it returns no chart.
C24_ScatterForTwoNumericColumns ==
    (/\ TableCharted
     /\ args.execution_result.result.nrows > 0
     /\ ColumnCount(FALSE) = 0)
    => IF ColumnCount(TRUE) = 2
       THEN /\ PlotDecision(args.execution_result).kind = "scatter"
            /\ args.execution_result.result.plots => ret.kind = "scatter"
       ELSE ret = NoChart
C24_Witness ==
    /\ TableCharted
    /\ args.execution_result.result.nrows > 0
    /\ args.execution_result.result.plots
    /\ ColumnCount(FALSE) = 0
    /\ ColumnCount(TRUE) = 2
    /\ ret.kind = "scatter"
C24_WitnessThree ==
    /\ TableCharted
    /\ args.execution_result.result.nrows > 0
    /\ ColumnCount(FALSE) = 0
    /\ ColumnCount(TRUE) = 3
    /\ ret = NoChart

\* C27: when building the chart raises, create_visualization returns None, and
\* query_with_code_generation returns the analysis, the code and the result type
\* with no chart.
C27_ChartFailureIsNotFatal ==
    (/\ op = "query_with_code_generation"
     /\ Ran("create_visualization")
     /\ LastRun.value.type \in {"DataFrame", "Series"}
     /\ ~LastRun.value.plots)
    => /\ ~ret.raised
       /\ DOMAIN ret.value[1] = {"analysis", "code", "result_type"}
       /\ ret.value[1].code = GeneratedCode[llm]
       /\ ret.value[2] = NoChart
C27_Witness ==
    /\ op = "query_with_code_generation"
    /\ Ran("create_visualization")
    /\ LastRun.value.type = "Series"
    /\ ~LastRun.value.plots
    /\ ~ret.raised
    /\ ret.value[2] = NoChart

\* C25: with the LLM available, a query that leaves use_code_gen unset takes the
\* code-generation path; the narrative path runs only when use_code_gen was given
\* as False or when the code-generation path raised.
C25_CodeGenerationByDefault ==
    (op = "query" /\ llm_available) =>
        /\ args.use_code_gen = Unset =>
               (Len(steps) >= 1 /\ steps[1] = "query_with_code_generation")
        /\ Ran("_query_with_llm") =>
               \/ args.use_code_gen = Given(FALSE)
               \/ /\ Len(steps) >= 3
                  /\ SubSeq(steps, 1, 3) = <<"query_with_code_generation",
                                            "_build_data_context", "_query_with_llm">>
                  /\ _build_data_context(data_loader).raised
C25_Witness ==
    /\ op = "query"
    /\ llm_available
    /\ args.use_code_gen = Unset
    /\ steps[1] = "query_with_code_generation"
    /\ Ran("execute_code")
    /\ ~Ran("_query_with_llm")
C25_WitnessFallback ==
    /\ op = "query"
    /\ llm_available
    /\ args.use_code_gen = Unset
    /\ Ran("_query_with_llm")

\* C26: query_with_code_generation builds the context, asks the LLM for the
\* program once, executes it once and, when the execution succeeded, asks the LLM
\* for the analysis once and then attempts the chart once; after a failed
\* generation or execution nothing is done again.
C26_LinearProgression ==
    op = "query_with_code_generation" =>
        \/ /\ steps = <<"_build_data_context">>
           /\ llm_calls = 0
           /\ ret.raised
        \/ /\ steps = <<"_build_data_context", "generate_code", "execute_code">>
           /\ llm_calls = 1
           /\ LastRun.kind # "assigns"
        \/ /\ steps = <<"_build_data_context", "generate_code", "execute_code",
                        "analyze_results", "create_visualization">>
           /\ llm_calls = 2
           /\ LastRun.kind = "assigns"
           /\ ~ret.raised
C26_Witness ==
    /\ op = "query_with_code_generation"
    /\ Len(steps) = 5
    /\ llm_calls = 2
C26_WitnessFailure ==
    /\ op = "query_with_code_generation"
    /\ ~llm.ok
    /\ Len(steps) = 3
    /\ llm_calls = 1
    /\ ~ret.raised

\* C28: after construction no call of query, clear_conversation, undo_last_query
\* or get_conversation_summary probes the backend or changes the availability
\* flag, and every query of an agent whose probe failed returns the
\* unavailability message without an LLM call.
C28_AvailabilityProbedOnce ==
    [][/\ llm_available' = llm_available
       /\ \A i \in DOMAIN steps' : steps'[i] # "is_available"
       /\ (op' = "query" /\ ~llm_available) =>
              /\ ret' = [raised |-> FALSE,
                         value |-> <<Text(UnavailableMessage), NoChart>>]
              /\ llm_calls' = 0]_vars
C28_Witness ==
    /\ op = "query"
    /\ prev_op \in {"query", "clear_conversation", "undo_last_query",
                    "get_conversation_summary"}
    /\ llm_backend # None
    /\ ~llm_available
    /\ ret.value[1] = Text(UnavailableMessage)

\* C29: the stored history has even length and alternates user, assistant from a
\* user entry on; it holds no system entry.
C29_HistoryAlternates ==
    /\ Len(conversation_history) % 2 = 0
    /\ \A i \in DOMAIN conversation_history :
           conversation_history[i].role = IF i % 2 = 1 THEN "user" ELSE "assistant"
C29_Witness ==
    /\ SentOk
    /\ max_history >= 1
    /\ Len(before) + 2 > 2 * max_history
    /\ Len(before) = 2 * max_history
    /\ Len(conversation_history) = 2 * max_history

\* C30: a request is the system entry if there is one, then the whole stored
\* history in order, then the new user message; a system entry is there only when
\* the stored history is empty, and with a non-empty history the request has at
\* most 2 x max_history + 1 entries.
C30_RequestCarriesWholeHistory ==
    op = "send_message" =>
        LET sys == IF request[1].role = "system" THEN <<request[1]>> ELSE <<>>
        IN  /\ request = sys \o before \o <<Entry("user", args.user_message)>>
            /\ sys # <<>> => before = <<>>
            /\ before # <<>> => Len(request) <= 2 * max_history + 1
====
